---- MODULE Spec2Model ----
(***************************************************************************)
(* claude-chill: the escape-sequence scanner (escape_parser.rs), the sync  *)
(* engine (output_processor.rs) and the history buffer (line_buffer.rs).   *)
(* Bytes are the integers 0..255; byte strings are sequences of bytes.     *)
(***************************************************************************)
EXTENDS Integers, Sequences, FiniteSets, TLC

VARIABLES
    \* OutputProcessor (output_processor.rs:6-12)
    parser, in_sync_block, sync_buffer, passthrough_buffer, pending_escape,
    \* the process() call in progress: its local output, the unread bytes of
    \* its chunk and its position
    output, data, pc,
    \* the child's byte stream: the whole stream and the part not yet read
    input, rest,
    \* history variables of the sync engine: the number of calls, all bytes
    \* returned so far, the event of the last byte, the bytes of the sequence
    \* the scanner is inside (since it left Ground, and since the ESC that
    \* last put it in Escape), and the raw bytes received since the open
    \* block was opened, the bytes of sync markers left out
    calls, emitted, lastEvent, seqBytes, csiBytes, blockRaw,
    \* LineBuffer (line_buffer.rs:3-8) and the bytes pushed since new/clear
    \* and whether clear was called since new
    lines, current_line, max_lines, cached_bytes, pushed, cleared,
    \* An EscapeParser fed alone (escape_parser.rs:31-35): the parser, the
    \* result of the last feed, the bytes fed and still to feed, and the
    \* bytes fed since the parser was last in Ground
    scanner, scEvent, scFed, scRest, scSeq,
    \* strip_script_wrapper (script_parser.rs:23-43): its argument, the
    \* local `result`, the loop it is in, and the content the argument was
    \* wrapped around
    swData, swResult, swPc, swContent,
    \* count_sync_markers (analyzer.rs:154-168): its argument, the loop
    \* index, the two counters and its position
    anData, anI, starts, ends, anPc,
    \* main (bin.rs:13-51): its position, args.len(), the session
    \* (Proxy) it owns, the result of proxy.run() and the exit status
    mainPc, argc, session, runResult, exitStatus

opVars == <<parser, in_sync_block, sync_buffer, passthrough_buffer,
            pending_escape, output, data, pc, input, rest, calls, emitted,
            lastEvent, seqBytes, csiBytes, blockRaw>>

lbVars == <<lines, current_line, max_lines, cached_bytes, pushed, cleared>>

scVars == <<scanner, scEvent, scFed, scRest, scSeq>>

swVars == <<swData, swResult, swPc, swContent>>

anVars == <<anData, anI, starts, ends, anPc>>

mnVars == <<mainPc, argc, session, runResult, exitStatus>>

vars == <<parser, in_sync_block, sync_buffer, passthrough_buffer,
          pending_escape, output, data, pc, input, rest, calls, emitted,
          lastEvent, seqBytes, csiBytes, blockRaw,
          lines, current_line, max_lines, cached_bytes, pushed, cleared,
          scanner, scEvent, scFed, scRest, scSeq,
          swData, swResult, swPc, swContent,
          anData, anI, starts, ends, anPc,
          mainPc, argc, session, runResult, exitStatus>>

----------------------------------------------------------------------------
(* Bytes *)

ESC == 27
BEL == 7
LF == 10
CR == 13
ST8 == 156
U16_MAX == 65535

\* b'[' b']' b'?' b';' b'0' b'9' b'@' b'~'
LBRACKET == 91
RBRACKET == 93
QUESTION == 63
SEMICOLON == 59
DIGIT0 == 48
DIGIT9 == 57
FINAL_LO == 64
FINAL_HI == 126

SYNC_START == <<27, 91, 63, 50, 48, 50, 54, 104>>
SYNC_END == <<27, 91, 63, 50, 48, 50, 54, 108>>

Min(a, b) == IF a <= b THEN a ELSE b
Max(a, b) == IF a >= b THEN a ELSE b

\* the fold with wrapping u16 arithmetic (wrapping_mul / wrapping_add)
SatMul10Add_Wrapping(last, d) == (last * 10 + d) % (U16_MAX + 1)

\* u16::saturating_mul(10).saturating_add(d)
SatMul10Add(last, d) == Min(Min(last * 10, U16_MAX) + d, U16_MAX)

----------------------------------------------------------------------------
(* EscapeParser *)

NoEvent == [kind |-> "None"]
Event(k) == [kind |-> k]

EscapeParser_new == [state |-> "Ground", params |-> <<>>, intermediate |-> <<>>]

in_escape_sequence(p) == p.state # "Ground"

NoColor == [kind |-> "None"]

SgrDefault == [reset |-> FALSE, fg |-> NoColor, bg |-> NoColor]

Rgb(r, g, b) == [kind |-> "Rgb", r |-> r % 256, g |-> g % 256, b |-> b % 256]
Indexed(n) == [kind |-> "Indexed", n |-> n % 256]

\* self.params[i] with the source's 0-based index
At(ps, i) == ps[i + 1]

\* the arms 38 / 48 without the advance of i over the parameters they consume
SgrColor_NoSkip(ps, i) ==
    IF i + 1 < Len(ps) /\ At(ps, i + 1) = 2
    THEN IF i + 4 < Len(ps)
         THEN [color |-> Rgb(At(ps, i + 2), At(ps, i + 3), At(ps, i + 4)), skip |-> 0]
         ELSE [color |-> NoColor, skip |-> 0]
    ELSE IF i + 1 < Len(ps) /\ At(ps, i + 1) = 5 /\ i + 2 < Len(ps)
         THEN [color |-> Indexed(At(ps, i + 2)), skip |-> 0]
         ELSE [color |-> NoColor, skip |-> 0]

\* the arms 38 / 48 of parse_sgr: the colour decoded at index i (NoColor when
\* the following parameters do not complete one) and the extra advance of i
SgrColor(ps, i) ==
    IF i + 1 < Len(ps) /\ At(ps, i + 1) = 2
    THEN IF i + 4 < Len(ps)
         THEN [color |-> Rgb(At(ps, i + 2), At(ps, i + 3), At(ps, i + 4)), skip |-> 4]
         ELSE [color |-> NoColor, skip |-> 0]
    ELSE IF i + 1 < Len(ps) /\ At(ps, i + 1) = 5 /\ i + 2 < Len(ps)
         THEN [color |-> Indexed(At(ps, i + 2)), skip |-> 2]
         ELSE [color |-> NoColor, skip |-> 0]

RECURSIVE SgrLoop(_, _, _)
SgrLoop(ps, i, sgr) ==
    IF i >= Len(ps) THEN sgr
    ELSE LET c == SgrColor(ps, i) IN
         CASE At(ps, i) = 0 -> SgrLoop(ps, i + 1, [sgr EXCEPT !.reset = TRUE])
           [] At(ps, i) = 38 ->
                SgrLoop(ps, i + c.skip + 1,
                        IF c.color = NoColor THEN sgr ELSE [sgr EXCEPT !.fg = c.color])
           [] At(ps, i) = 48 ->
                SgrLoop(ps, i + c.skip + 1,
                        IF c.color = NoColor THEN sgr ELSE [sgr EXCEPT !.bg = c.color])
           [] At(ps, i) = 39 -> SgrLoop(ps, i + 1, [sgr EXCEPT !.fg = [kind |-> "Default"]])
           [] At(ps, i) = 49 -> SgrLoop(ps, i + 1, [sgr EXCEPT !.bg = [kind |-> "Default"]])
           [] OTHER -> SgrLoop(ps, i + 1, sgr)

parse_sgr(p) == SgrLoop(p.params, 0, SgrDefault)

\* self.params.first().copied().unwrap_or(d)
FirstParamOr(p, d) == IF p.params = <<>> THEN d ELSE p.params[1]

\* called with the state already set to Ground; returns the event
dispatch_csi(p, byte) ==
    CASE byte = 72 ->  \* b'H'
           IF \/ p.params = <<>>
              \/ (Len(p.params) = 2 /\ p.params[1] <= 1 /\ p.params[2] <= 1)
           THEN Event("CursorHome") ELSE Event("Other")
      [] byte = 74 ->  \* b'J'
           IF FirstParamOr(p, 0) = 2 THEN Event("ClearScreen")
           ELSE IF FirstParamOr(p, 0) = 3 THEN Event("ClearScrollback")
           ELSE Event("Other")
      [] byte = 65 ->  \* b'A'
           [kind |-> "CursorUp", n |-> Max(FirstParamOr(p, 1), 1)]
      [] byte = 71 ->  \* b'G'
           [kind |-> "CursorCol", n |-> FirstParamOr(p, 1)]
      [] byte = 75 -> Event("ClearLine")  \* b'K'
      [] byte = 109 -> [kind |-> "Sgr", sgr |-> parse_sgr(p)]  \* b'm'
      [] OTHER -> Event("Other")

dispatch_private_csi(p, byte) ==
    IF p.intermediate # <<>> /\ p.intermediate[1] = QUESTION
    THEN IF FirstParamOr(p, 0) = 2026 /\ byte = 104 THEN Event("SyncStart")
         ELSE IF FirstParamOr(p, 0) = 2026 /\ byte = 108 THEN Event("SyncEnd")
         ELSE Event("Other")
    ELSE Event("Other")

\* Each state function returns the parser after the byte and the event
\* (NoEvent for Rust's None).
Res(p, e) == [parser |-> p, event |-> e]

ground(p, byte) ==
    IF byte = ESC THEN Res([p EXCEPT !.state = "Escape"], NoEvent)
    ELSE IF byte = LF THEN Res(p, Event("Newline"))
    ELSE IF byte = CR THEN Res(p, Event("CarriageReturn"))
    ELSE Res(p, NoEvent)

\* escape whose last arm returns to Ground without an event
escape_Silent(p, byte) ==
    IF byte = LBRACKET
    THEN Res([p EXCEPT !.state = "CsiEntry", !.params = <<>>, !.intermediate = <<>>], NoEvent)
    ELSE IF byte = RBRACKET THEN Res([p EXCEPT !.state = "OscString"], NoEvent)
    ELSE IF byte \in {80, 94, 95}
    THEN Res([p EXCEPT !.state = "DcsString"], NoEvent)
    ELSE Res([p EXCEPT !.state = "Ground"], NoEvent)

escape(p, byte) ==
    IF byte = LBRACKET
    THEN Res([p EXCEPT !.state = "CsiEntry", !.params = <<>>, !.intermediate = <<>>], NoEvent)
    ELSE IF byte = RBRACKET THEN Res([p EXCEPT !.state = "OscString"], NoEvent)
    ELSE IF byte \in {80, 94, 95}  \* b'P' | b'^' | b'_'
    THEN Res([p EXCEPT !.state = "DcsString"], NoEvent)
    ELSE Res([p EXCEPT !.state = "Ground"], Event("Other"))

\* osc_string that reports the BEL but stays in the string
osc_string_NoGround(p, byte) ==
    IF byte = BEL THEN Res(p, Event("Other"))
    ELSE IF byte = ESC THEN Res([p EXCEPT !.state = "Escape"], NoEvent)
    ELSE Res(p, NoEvent)

osc_string(p, byte) ==
    IF byte = BEL THEN Res([p EXCEPT !.state = "Ground"], Event("Other"))
    ELSE IF byte = ESC THEN Res([p EXCEPT !.state = "Escape"], NoEvent)
    ELSE Res(p, NoEvent)

dcs_string(p, byte) ==
    IF byte = ESC THEN Res([p EXCEPT !.state = "Escape"], NoEvent)
    ELSE IF byte = ST8 THEN Res([p EXCEPT !.state = "Ground"], Event("Other"))
    ELSE Res(p, NoEvent)

csi_entry(p, byte) ==
    IF byte >= DIGIT0 /\ byte <= DIGIT9
    THEN Res([p EXCEPT !.params = Append(@, byte - DIGIT0), !.state = "CsiParam"], NoEvent)
    ELSE IF byte = SEMICOLON
    THEN Res([p EXCEPT !.params = Append(@, 0), !.state = "CsiParam"], NoEvent)
    ELSE IF byte = QUESTION
    THEN Res([p EXCEPT !.intermediate = Append(@, byte), !.state = "CsiIntermediate"], NoEvent)
    ELSE IF byte >= FINAL_LO /\ byte <= FINAL_HI
    THEN Res([p EXCEPT !.state = "Ground"], dispatch_csi(p, byte))
    ELSE Res([p EXCEPT !.state = "Ground"], Event("Other"))

\* *last = last.saturating_mul(10).saturating_add(digit)
FoldDigit(ps, byte) ==
    [ps EXCEPT ![Len(ps)] = SatMul10Add(@, byte - DIGIT0)]

csi_param(p, byte) ==
    IF byte >= DIGIT0 /\ byte <= DIGIT9
    THEN Res(IF p.params = <<>> THEN p
             ELSE [p EXCEPT !.params = FoldDigit(@, byte)], NoEvent)
    ELSE IF byte = SEMICOLON
    THEN Res([p EXCEPT !.params = Append(@, 0)], NoEvent)
    ELSE IF byte >= FINAL_LO /\ byte <= FINAL_HI
    THEN Res([p EXCEPT !.state = "Ground"], dispatch_csi(p, byte))
    ELSE Res([p EXCEPT !.state = "Ground"], Event("Other"))

\* csi_intermediate without the arm of the final bytes
csi_intermediate_NoFinal(p, byte) ==
    IF byte >= DIGIT0 /\ byte <= DIGIT9
    THEN Res(IF p.params = <<>>
             THEN [p EXCEPT !.params = Append(@, byte - DIGIT0)]
             ELSE [p EXCEPT !.params = FoldDigit(@, byte)], NoEvent)
    ELSE IF byte = SEMICOLON
    THEN Res([p EXCEPT !.params = Append(@, 0)], NoEvent)
    ELSE Res([p EXCEPT !.intermediate = Append(@, byte)], NoEvent)

csi_intermediate(p, byte) ==
    IF byte >= DIGIT0 /\ byte <= DIGIT9
    THEN Res(IF p.params = <<>>
             THEN [p EXCEPT !.params = Append(@, byte - DIGIT0)]
             ELSE [p EXCEPT !.params = FoldDigit(@, byte)], NoEvent)
    ELSE IF byte = SEMICOLON
    THEN Res([p EXCEPT !.params = Append(@, 0)], NoEvent)
    ELSE IF byte >= FINAL_LO /\ byte <= FINAL_HI
    THEN Res([p EXCEPT !.state = "Ground"], dispatch_private_csi(p, byte))
    ELSE Res([p EXCEPT !.intermediate = Append(@, byte)], NoEvent)

feed(p, byte) ==
    CASE p.state = "Ground" -> ground(p, byte)
      [] p.state = "Escape" -> escape(p, byte)
      [] p.state = "CsiEntry" -> csi_entry(p, byte)
      [] p.state = "CsiParam" -> csi_param(p, byte)
      [] p.state = "CsiIntermediate" -> csi_intermediate(p, byte)
      [] p.state = "OscString" -> osc_string(p, byte)
      [] p.state = "DcsString" -> dcs_string(p, byte)

----------------------------------------------------------------------------
(* OutputProcessor.  A processor value s is the record of the struct's     *)
(* fields plus `output`, the local Vec of the process() call in progress.  *)

OutputProcessor_new ==
    [parser |-> EscapeParser_new, in_sync_block |-> FALSE, sync_buffer |-> <<>>,
     passthrough_buffer |-> <<>>, pending_escape |-> <<>>, output |-> <<>>]

\* flush_pending_escape with the copy of the staged bytes left out
flush_pending_escape_Drop(s) == [s EXCEPT !.pending_escape = <<>>]

\* flush_pending_escape without the test of in_sync_block: the staged bytes
\* always go to the passthrough bytes
flush_pending_escape_Passthrough(s) ==
    [s EXCEPT !.passthrough_buffer = @ \o s.pending_escape, !.pending_escape = <<>>]

flush_pending_escape(s) ==
    IF s.in_sync_block
    THEN [s EXCEPT !.sync_buffer = @ \o s.pending_escape, !.pending_escape = <<>>]
    ELSE [s EXCEPT !.passthrough_buffer = @ \o s.pending_escape, !.pending_escape = <<>>]

\* process, lines 32-33
ProcessEnter(s) == [s EXCEPT !.output = <<>>, !.passthrough_buffer = <<>>]

\* process, lines 36-40
SeedPending(s) ==
    IF in_escape_sequence(s.parser) /\ s.pending_escape = <<>>
    THEN [s EXCEPT !.pending_escape = <<ESC>>]
    ELSE s

\* the SyncStart arm without the flush of the passthrough bytes (lines 45-48)
SyncStartArm_NoFlush(s) ==
    [s EXCEPT !.pending_escape = <<>>,
              !.in_sync_block = TRUE,
              !.sync_buffer = SYNC_START]

\* the SyncStart arm without sync_buffer.clear() (line 51)
SyncStartArm_NoClear(s) ==
    [s EXCEPT !.output = @ \o s.passthrough_buffer,
              !.passthrough_buffer = <<>>,
              !.pending_escape = <<>>,
              !.in_sync_block = TRUE,
              !.sync_buffer = @ \o SYNC_START]

\* the SyncStart arm without pending_escape.clear() (line 49)
SyncStartArm_KeepPending(s) ==
    [s EXCEPT !.output = @ \o s.passthrough_buffer,
              !.passthrough_buffer = <<>>,
              !.in_sync_block = TRUE,
              !.sync_buffer = SYNC_START]

\* process, lines 44-54
SyncStartArm(s) ==
    [s EXCEPT !.output = @ \o s.passthrough_buffer,
              !.passthrough_buffer = <<>>,
              !.pending_escape = <<>>,
              !.in_sync_block = TRUE,
              !.sync_buffer = SYNC_START]

\* the SyncEnd arm without the test of in_sync_block (line 57)
SyncEndArm_Unguarded(s) ==
    [s EXCEPT !.pending_escape = <<>>,
              !.sync_buffer = @ \o SYNC_END,
              !.output = @ \o s.sync_buffer \o SYNC_END,
              !.in_sync_block = FALSE]

\* process, lines 55-63
SyncEndArm(s) ==
    IF s.in_sync_block
    THEN [s EXCEPT !.pending_escape = <<>>,
                   !.sync_buffer = @ \o SYNC_END,
                   !.output = @ \o s.sync_buffer \o SYNC_END,
                   !.in_sync_block = FALSE]
    ELSE [s EXCEPT !.pending_escape = <<>>]

\* process, lines 70-80
StoreByte(s, byte) ==
    LET t == IF ~in_escape_sequence(s.parser) /\ s.pending_escape # <<>>
             THEN flush_pending_escape(s) ELSE s
    IN  IF in_escape_sequence(t.parser)
        THEN [t EXCEPT !.pending_escape = Append(@, byte)]
        ELSE IF t.in_sync_block
        THEN [t EXCEPT !.sync_buffer = Append(@, byte)]
        ELSE [t EXCEPT !.passthrough_buffer = Append(@, byte)]

\* one iteration of the loop of process, lines 35-81
ProcessByte(s, byte) ==
    LET s1 == SeedPending(s)
        r  == feed(s1.parser, byte)
        s2 == [s1 EXCEPT !.parser = r.parser]
    IN  CASE r.event.kind = "SyncStart" -> SyncStartArm(s2)
          [] r.event.kind = "SyncEnd" -> SyncEndArm(s2)
          [] r.event.kind = "None" -> StoreByte(s2, byte)
          [] OTHER -> StoreByte(flush_pending_escape(s2), byte)

\* process, lines 83-91
ProcessExit(s) ==
    LET t == IF s.pending_escape # <<>> THEN flush_pending_escape(s) ELSE s
    IN  [t EXCEPT !.output = @ \o t.passthrough_buffer]

\* the loop of process over bytes; each iteration's processor value is
\* computed (the test on t.in_sync_block) before the next one starts
RECURSIVE ProcessLoop(_, _)
ProcessLoop(s, bytes) ==
    IF bytes = <<>> THEN s
    ELSE LET t == ProcessByte(s, Head(bytes))
         IN  IF t.in_sync_block \in BOOLEAN
             THEN ProcessLoop(t, Tail(bytes))
             ELSE t

\* the whole call: the processor after it; .output is the returned Vec
process(s, bytes) == ProcessExit(ProcessLoop(ProcessEnter(s), bytes))

\* the kind of event the scanner reports for a byte, as process sees it
EventKind(s, byte) == feed(SeedPending(s).parser, byte).event.kind

----------------------------------------------------------------------------
(* LineBuffer.  A buffer value b is the record of the struct's fields.     *)

LineBuffer_new(cap) ==
    [lines |-> <<>>, current_line |-> <<>>, max_lines |-> cap, cached_bytes |-> 0]

\* push_byte without the decrement of cached_bytes on eviction (line 28)
push_byte_NoDecrement(b, byte) ==
    IF byte = LF
    THEN LET line   == b.current_line
             cached == b.cached_bytes + Len(line) + 1
             pushed_back == Append(b.lines, line)
         IN  IF Len(pushed_back) > b.max_lines
             THEN [b EXCEPT !.current_line = <<>>,
                            !.lines = Tail(pushed_back),
                            !.cached_bytes = cached]
             ELSE [b EXCEPT !.current_line = <<>>,
                            !.lines = pushed_back,
                            !.cached_bytes = cached]
    ELSE [b EXCEPT !.current_line = Append(@, byte)]

\* push_byte that evicts the newest line instead of the oldest (pop_back for
\* pop_front, line 26)
push_byte_EvictNewest(b, byte) ==
    IF byte = LF
    THEN LET line   == b.current_line
             cached == b.cached_bytes + Len(line) + 1
             pushed_back == Append(b.lines, line)
         IN  IF Len(pushed_back) > b.max_lines
             THEN [b EXCEPT !.current_line = <<>>,
                            !.lines = SubSeq(pushed_back, 1, Len(pushed_back) - 1),
                            !.cached_bytes = cached - (Len(line) + 1)]
             ELSE [b EXCEPT !.current_line = <<>>,
                            !.lines = pushed_back,
                            !.cached_bytes = cached]
    ELSE [b EXCEPT !.current_line = Append(@, byte)]

\* push_byte that drops a carriage return in front of the line feed
push_byte_StripCR(b, byte) ==
    IF byte = LF
    THEN LET raw    == b.current_line
             line   == IF raw # <<>> /\ raw[Len(raw)] = CR
                       THEN SubSeq(raw, 1, Len(raw) - 1) ELSE raw
             cached == b.cached_bytes + Len(line) + 1
             pushed_back == Append(b.lines, line)
         IN  IF Len(pushed_back) > b.max_lines
             THEN [b EXCEPT !.current_line = <<>>,
                            !.lines = Tail(pushed_back),
                            !.cached_bytes = cached - (Len(Head(pushed_back)) + 1)]
             ELSE [b EXCEPT !.current_line = <<>>,
                            !.lines = pushed_back,
                            !.cached_bytes = cached]
    ELSE [b EXCEPT !.current_line = Append(@, byte)]

\* push_byte without the eviction (lines 25-29 left out)
push_byte_NoEvict(b, byte) ==
    IF byte = LF
    THEN [b EXCEPT !.current_line = <<>>,
                   !.lines = Append(@, b.current_line),
                   !.cached_bytes = @ + Len(b.current_line) + 1]
    ELSE [b EXCEPT !.current_line = Append(@, byte)]

push_byte(b, byte) ==
    IF byte = LF
    THEN LET line   == b.current_line
             cached == b.cached_bytes + Len(line) + 1
             pushed_back == Append(b.lines, line)
         IN  IF Len(pushed_back) > b.max_lines
             THEN [b EXCEPT !.current_line = <<>>,
                            !.lines = Tail(pushed_back),
                            !.cached_bytes = cached - (Len(Head(pushed_back)) + 1)]
             ELSE [b EXCEPT !.current_line = <<>>,
                            !.lines = pushed_back,
                            !.cached_bytes = cached]
    ELSE [b EXCEPT !.current_line = Append(@, byte)]

RECURSIVE push_bytes(_, _)
push_bytes(b, bytes) ==
    IF bytes = <<>> THEN b
    ELSE push_bytes(push_byte(b, Head(bytes)), Tail(bytes))

\* clear that leaves the byte count of the completed lines as it was
clear_KeepCached(b) == [b EXCEPT !.lines = <<>>, !.current_line = <<>>]

clear(b) == [b EXCEPT !.lines = <<>>, !.current_line = <<>>, !.cached_bytes = 0]

line_count(b) == Len(b.lines) + (IF b.current_line = <<>> THEN 0 ELSE 1)

total_bytes(b) == b.cached_bytes + Len(b.current_line)

\* the bytes of the completed lines ls, each followed by b'\n'
RECURSIVE JoinLines(_)
JoinLines(ls) ==
    IF ls = <<>> THEN <<>>
    ELSE Head(ls) \o <<LF>> \o JoinLines(Tail(ls))

\* the bytes append_all appends to its output argument
append_all(b) == JoinLines(b.lines) \o b.current_line

\* append_last_n_lines that does not count the unterminated tail as a line
\* (self.lines.len() for self.line_count(), line 56)
append_last_n_lines_NoTail(b, n) ==
    LET total_lines == Len(b.lines)
        lines_to_skip == Max(total_lines - n, 0)
        completed_lines_to_skip == Min(lines_to_skip, Len(b.lines))
    IN  JoinLines(SubSeq(b.lines, completed_lines_to_skip + 1, Len(b.lines)))
        \o (IF b.current_line # <<>> /\ lines_to_skip < total_lines
            THEN b.current_line ELSE <<>>)

\* the bytes append_last_n_lines appends to its output argument
append_last_n_lines(b, n) ==
    LET total_lines == line_count(b)
        lines_to_skip == Max(total_lines - n, 0)
        completed_lines_to_skip == Min(lines_to_skip, Len(b.lines))
    IN  JoinLines(SubSeq(b.lines, completed_lines_to_skip + 1, Len(b.lines)))
        \o (IF b.current_line # <<>> /\ lines_to_skip < total_lines
            THEN b.current_line ELSE <<>>)

----------------------------------------------------------------------------
(* Bounds and input sets *)

MaxTokens == 3
MaxSplitTokens == 1
MaxCalls == 2
MaxCapacity == 2
MaxPushed == 5
MaxChunk == 2

\* one synchronized block with one byte of content
Block == SYNC_START \o <<72>> \o SYNC_END

\* a sync-start followed by one byte of content
OpenBlock == SYNC_START \o <<72>>

\* the pieces the child's stream is made of: text, CR LF, the two sync
\* markers, a whole block, the opening of a block, and the bytes that open
\* and end escape sequences
Tokens ==
    {<<72>>, <<CR, LF>>, SYNC_START, SYNC_END, Block, OpenBlock,
     <<ESC>>, <<LBRACKET>>, <<RBRACKET>>, <<BEL>>}

RECURSIVE Streams(_)
Streams(n) ==
    IF n = 0 THEN {<<>>}
    ELSE LET shorter == Streams(n - 1)
         IN  shorter \cup {st \o t : st \in shorter, t \in Tokens}

\* the streams given to a processor: up to MaxTokens pieces
Inputs == Streams(MaxTokens)

\* the streams that are also delivered cut into several chunks
SplitInputs == Streams(MaxSplitTokens)

\* the bytes pushed into the history: text, CR and LF
HistoryBytes == {97, CR, LF}

RECURSIVE ByteStrings(_)
ByteStrings(n) ==
    IF n = 0 THEN {<<>>}
    ELSE LET shorter == ByteStrings(n - 1)
         IN  shorter \cup {bs \o <<x>> : bs \in shorter, x \in HistoryBytes}

PushChunks == {bs \in ByteStrings(MaxChunk) : Len(bs) >= 2}

----------------------------------------------------------------------------
(* The state machine of the sync engine *)

\* bytes without its last k elements
DropLast(bytes, k) == SubSeq(bytes, 1, Len(bytes) - k)

Proc ==
    [parser |-> parser, in_sync_block |-> in_sync_block,
     sync_buffer |-> sync_buffer, passthrough_buffer |-> passthrough_buffer,
     pending_escape |-> pending_escape, output |-> output]

SetProc(s) ==
    /\ parser' = s.parser
    /\ in_sync_block' = s.in_sync_block
    /\ sync_buffer' = s.sync_buffer
    /\ passthrough_buffer' = s.passthrough_buffer
    /\ pending_escape' = s.pending_escape
    /\ output' = s.output

Buf ==
    [lines |-> lines, current_line |-> current_line, max_lines |-> max_lines,
     cached_bytes |-> cached_bytes]

SetBuf(b) ==
    /\ lines' = b.lines
    /\ current_line' = b.current_line
    /\ max_lines' = b.max_lines
    /\ cached_bytes' = b.cached_bytes

InitProc(in) ==
    /\ parser = EscapeParser_new
    /\ in_sync_block = FALSE
    /\ sync_buffer = <<>>
    /\ passthrough_buffer = <<>>
    /\ pending_escape = <<>>
    /\ output = <<>>
    /\ data = <<>>
    /\ pc = "idle"
    /\ input = in
    /\ rest = in
    /\ calls = 0
    /\ emitted = <<>>
    /\ lastEvent = "None"
    /\ seqBytes = <<>>
    /\ csiBytes = <<>>
    /\ blockRaw = <<>>

InitBuf(cap) ==
    /\ lines = <<>>
    /\ current_line = <<>>
    /\ max_lines = cap
    /\ cached_bytes = 0
    /\ pushed = <<>>
    /\ cleared = FALSE

\* count_sync_markers(d) is entered
InitAnalyzer(d) ==
    /\ anData = d
    /\ anI = 0
    /\ starts = 0
    /\ ends = 0
    /\ anPc = "loop"

\* main is entered with n arguments (the program's name included)
InitMain(n) ==
    /\ mainPc = "args"
    /\ argc = n
    /\ session = "none"
    /\ runResult = [ok |-> FALSE, exit_code |-> 0]
    /\ exitStatus = 0

\* the parts of the program a specification leaves alone
Idle == InitAnalyzer(<<>>) /\ InitMain(1)

InitScanner(in) ==
    /\ scanner = EscapeParser_new
    /\ scEvent = NoEvent
    /\ scFed = <<>>
    /\ scRest = in
    /\ scSeq = <<>>

\* strip_script_wrapper(head \o content \o foot) is entered
InitScript(head, content, foot) ==
    /\ swData = head \o content \o foot
    /\ swResult = head \o content \o foot
    /\ swPc = "header"
    /\ swContent = content

\* a process(chunk) call begins: chunk is the next n bytes of the stream.
\* A stream of SplitInputs is delivered in at most MaxCalls chunks cut
\* anywhere (the last call the bound allows takes all that is left); the
\* longer streams are delivered whole.
ProcessCall(n) ==
    /\ pc = "idle"
    /\ calls < MaxCalls
    /\ n \in 0..Len(rest)
    /\ n # Len(rest) => (input \in SplitInputs /\ calls + 1 < MaxCalls)
    /\ data' = SubSeq(rest, 1, n)
    /\ rest' = SubSeq(rest, n + 1, Len(rest))
    /\ SetProc(ProcessEnter(Proc))
    /\ pc' = "loop"
    /\ calls' = calls + 1
    /\ UNCHANGED <<input, emitted, lastEvent, seqBytes, csiBytes, blockRaw>>
    /\ UNCHANGED <<lbVars, scVars, swVars, anVars, mnVars>>

\* one iteration of the loop over the chunk
ProcessStep ==
    /\ pc = "loop"
    /\ data # <<>>
    /\ LET byte == Head(data)
           kind == EventKind(Proc, byte)
           s == ProcessByte(Proc, byte)
       IN  /\ SetProc(s)
           /\ lastEvent' = kind
           /\ seqBytes' = IF in_escape_sequence(s.parser)
                          THEN Append(seqBytes, byte) ELSE <<>>
           /\ csiBytes' = IF s.parser.state = "Escape" THEN <<byte>>
                          ELSE IF in_escape_sequence(s.parser)
                          THEN Append(csiBytes, byte) ELSE <<>>
           /\ blockRaw' = IF kind = "SyncStart" /\ ~in_sync_block THEN <<>>
                          ELSE IF ~in_sync_block THEN blockRaw
                          ELSE IF kind \in {"SyncStart", "SyncEnd"}
                          THEN DropLast(blockRaw, Len(csiBytes))
                          ELSE Append(blockRaw, byte)
    /\ data' = Tail(data)
    /\ UNCHANGED <<pc, input, rest, calls, emitted>>
    /\ UNCHANGED <<lbVars, scVars, swVars, anVars, mnVars>>

\* the chunk is exhausted: the end-of-chunk flush, and the call returns output
ProcessReturn ==
    /\ pc = "loop"
    /\ data = <<>>
    /\ LET s == ProcessExit(Proc)
       IN  /\ SetProc(s)
           /\ emitted' = emitted \o s.output
    /\ pc' = "idle"
    /\ UNCHANGED <<data, input, rest, calls, lastEvent, seqBytes, csiBytes, blockRaw>>
    /\ UNCHANGED <<lbVars, scVars, swVars, anVars, mnVars>>

Init ==
    /\ \E in \in Inputs : InitProc(in)
    /\ InitBuf(0) /\ InitScanner(<<>>) /\ InitScript(<<>>, <<>>, <<>>) /\ Idle

Next ==
    \/ \E n \in 0..Len(rest) : ProcessCall(n)
    \/ ProcessStep
    \/ ProcessReturn

Spec == Init /\ [][Next]_vars

----------------------------------------------------------------------------
(* The state machine of the history buffer *)

PushByte(byte) ==
    /\ Len(pushed) + 1 <= MaxPushed
    /\ SetBuf(push_byte(Buf, byte))
    /\ pushed' = Append(pushed, byte)
    /\ UNCHANGED cleared
    /\ UNCHANGED <<opVars, scVars, swVars, anVars, mnVars>>

PushBytes(bytes) ==
    /\ Len(pushed) + Len(bytes) <= MaxPushed
    /\ SetBuf(push_bytes(Buf, bytes))
    /\ pushed' = pushed \o bytes
    /\ UNCHANGED cleared
    /\ UNCHANGED <<opVars, scVars, swVars, anVars, mnVars>>

Clear ==
    /\ SetBuf(clear(Buf))
    /\ pushed' = <<>>
    /\ cleared' = TRUE
    /\ UNCHANGED <<opVars, scVars, swVars, anVars, mnVars>>

InitHistory ==
    /\ InitProc(<<>>) /\ InitScanner(<<>>) /\ InitScript(<<>>, <<>>, <<>>) /\ Idle
    /\ \E cap \in 0..MaxCapacity : InitBuf(cap)

NextHistory ==
    \/ \E byte \in HistoryBytes : PushByte(byte)
    \/ \E bytes \in PushChunks : PushBytes(bytes)
    \/ Clear

SpecHistory == InitHistory /\ [][NextHistory]_vars

----------------------------------------------------------------------------
(* Vocabulary of the properties *)

StartsWith(bytes, m) == Len(bytes) >= Len(m) /\ SubSeq(bytes, 1, Len(m)) = m

Drop(bytes, k) == SubSeq(bytes, k + 1, Len(bytes))

Range(f) == {f[i] : i \in DOMAIN f}

\* The shape of a stream of plain (non-ESC) bytes and canonical markers:
\* "closed" when it is plain bytes and blocks marker-content-marker, not
\* nested, every block closed; "open" when it is that followed by a last
\* block that has no end marker; "bad" otherwise.
RECURSIVE BlockShape(_, _)
BlockShape(bytes, open) ==
    IF bytes = <<>> THEN (IF open THEN "open" ELSE "closed")
    ELSE IF ~open /\ StartsWith(bytes, SYNC_START)
    THEN BlockShape(Drop(bytes, Len(SYNC_START)), TRUE)
    ELSE IF open /\ StartsWith(bytes, SYNC_END)
    THEN BlockShape(Drop(bytes, Len(SYNC_END)), FALSE)
    ELSE IF Head(bytes) # ESC THEN BlockShape(Tail(bytes), open)
    ELSE "bad"

\* the kinds of the events the scanner reports for bytes, from parser p
RECURSIVE ScanKinds(_, _)
ScanKinds(p, bytes) ==
    IF bytes = <<>> THEN {}
    ELSE LET r == feed(p, Head(bytes))
         IN  {r.event.kind} \cup ScanKinds(r.parser, Tail(bytes))

NoSyncEvent(bytes) ==
    ScanKinds(EscapeParser_new, bytes) \cap {"SyncStart", "SyncEnd"} = {}

\* the part of the stream given to process() so far
Consumed == SubSeq(input, 1, Len(input) - Len(rest))

\* what one process() call on a new OutputProcessor returns for bytes
OneShot(bytes) == process(OutputProcessor_new, bytes).output

\* the whole stream was given to the processor and the last call returned
Done == pc = "idle" /\ rest = <<>> /\ calls >= 1

\* the step just taken is an iteration of the loop of process
LoopStep == pc = "loop" /\ data # <<>> /\ data' = Tail(data)

----------------------------------------------------------------------------
(* C1: a stream of plain bytes and closed, canonical, non-nested sync      *)
(* blocks, processed in one call by a new processor, is returned byte for  *)
(* byte.                                                                   *)
RoundTripClosedBlocks ==
    (Done /\ calls = 1 /\ BlockShape(input, FALSE) = "closed") => emitted = input

\* two blocks with a byte between them, the second ending the input
RoundTripClosedBlocksWitness ==
    /\ Done /\ calls = 1
    /\ input = Block \o <<72>> \o Block
    /\ emitted = input

----------------------------------------------------------------------------
(* C2: however the stream is cut into chunks, the concatenation of the     *)
(* results of the calls equals the result of one call on the whole.        *)
ChunkSplitIndependence ==
    pc = "idle" => emitted = OneShot(Consumed)

----------------------------------------------------------------------------
(* C3: when a call ends inside an escape sequence, the bytes of that       *)
(* sequence, its ESC included, are still staged in pending_escape and were *)
(* not handed to the output or the block.                                  *)
NoPartialSequenceEmitted ==
    (pc = "idle" /\ in_escape_sequence(parser)) => pending_escape = seqBytes

----------------------------------------------------------------------------
(* C4: a stream that ends inside an open block is still returned whole.    *)
OpenBlockNotLost ==
    (Done /\ calls = 1 /\ BlockShape(input, FALSE) = "open") => emitted = input

----------------------------------------------------------------------------
(* C5: the block emitted when a sync-end closes it is the start marker,    *)
(* every raw byte received since the block was opened other than the bytes *)
(* of sync markers, in receipt order, and the end marker.                  *)
BlockContentComplete ==
    [][(LoopStep /\ calls = 1 /\ in_sync_block /\ ~in_sync_block')
         => /\ sync_buffer' = SYNC_START \o blockRaw' \o SYNC_END
            /\ output' = output \o SYNC_START \o blockRaw' \o SYNC_END]_vars

----------------------------------------------------------------------------
(* C6: processing the output of one call again, on a new processor,        *)
(* returns it unchanged.                                                   *)
Idempotence ==
    (Done /\ calls = 1) => OneShot(emitted) = emitted

\* a run whose output differs from its input and is not empty
IdempotenceWitness ==
    /\ Done /\ calls = 1
    /\ emitted # input /\ emitted # <<>>
    /\ OneShot(emitted) = emitted

----------------------------------------------------------------------------
(* C7: a stream in which the scanner finds no sync-start and no sync-end   *)
(* is returned byte for byte by one call on a new processor.               *)
PassthroughNoSync ==
    (Done /\ calls = 1 /\ NoSyncEvent(input)) => emitted = input

\* a stream with a carriage return and an escape sequence
PassthroughNoSyncWitness ==
    /\ Done /\ calls = 1
    /\ NoSyncEvent(input)
    /\ {ESC, CR} \subseteq Range(input)
    /\ emitted = input

----------------------------------------------------------------------------
(* C8: the step that handles a sync-start leaves the block open with       *)
(* exactly the canonical start marker as content, nothing staged, and the  *)
(* output extended only by the passthrough bytes collected before it.      *)
SyncStartPrimesBlock ==
    [][(LoopStep /\ lastEvent' = "SyncStart")
         => /\ in_sync_block'
            /\ sync_buffer' = SYNC_START
            /\ pending_escape' = <<>>
            /\ passthrough_buffer' = <<>>
            /\ output' = output \o passthrough_buffer]_vars

\* a sync-start handled while a block with content was already open
SyncStartPrimesBlockWitness ==
    /\ pc = "loop"
    /\ lastEvent = "SyncStart"
    /\ blockRaw # <<>>
    /\ in_sync_block
    /\ sync_buffer = SYNC_START

----------------------------------------------------------------------------
(* C9: the step that handles a sync-end with no block open changes neither *)
(* the block buffer, the passthrough bytes nor the output; with a block    *)
(* open it appends the canonical end marker, hands the block to the output *)
(* and closes the block.                                                   *)
SyncEndClosesOrNoOp ==
    [][(LoopStep /\ lastEvent' = "SyncEnd")
         => /\ ~in_sync_block'
            /\ pending_escape' = <<>>
            /\ passthrough_buffer' = passthrough_buffer
            /\ IF in_sync_block
               THEN /\ sync_buffer' = sync_buffer \o SYNC_END
                    /\ output' = output \o sync_buffer \o SYNC_END
               ELSE /\ sync_buffer' = sync_buffer
                    /\ output' = output]_vars

\* a dangling sync-end, then a block: only the block is in the output
SyncEndClosesOrNoOpWitness ==
    /\ pc = "loop" /\ data = <<>> /\ calls = 1
    /\ input = SYNC_END \o Block
    /\ lastEvent = "SyncEnd"
    /\ output = Block
    /\ ~in_sync_block

----------------------------------------------------------------------------
(* C10: total_bytes() is the length of what append_all produces, which is  *)
(* the sum over the stored lines of (length + 1) plus the tail length.     *)
RECURSIVE SumLineBytes(_)
SumLineBytes(ls) ==
    IF ls = <<>> THEN 0 ELSE Len(Head(ls)) + 1 + SumLineBytes(Tail(ls))

ByteAccounting ==
    /\ total_bytes(Buf) = Len(append_all(Buf))
    /\ total_bytes(Buf) = SumLineBytes(lines) + Len(current_line)

\* lines were evicted, and a line and a tail are stored
ByteAccountingWitness ==
    /\ Cardinality({i \in DOMAIN pushed : pushed[i] = LF}) > max_lines
    /\ lines # <<>> /\ current_line # <<>>
    /\ total_bytes(Buf) = Len(append_all(Buf))
    /\ total_bytes(Buf) < Len(pushed)

----------------------------------------------------------------------------
(* Vocabulary of the history properties *)

\* the last k elements of a sequence
LastK(seq, k) == SubSeq(seq, Len(seq) - k + 1, Len(seq))

IsSuffix(suf, seq) == Len(suf) <= Len(seq) /\ LastK(seq, Len(suf)) = suf

\* the number of line feeds in bytes
NumLF(bytes) == Cardinality({i \in DOMAIN bytes : bytes[i] = LF})

\* bytes cut at its line feeds: the completed lines (without their LF) and
\* the unterminated rest
RECURSIVE SplitAtLF(_, _, _)
SplitAtLF(bytes, done, cur) ==
    IF bytes = <<>> THEN [completed |-> done, tail |-> cur]
    ELSE IF Head(bytes) = LF THEN SplitAtLF(Tail(bytes), Append(done, cur), <<>>)
    ELSE SplitAtLF(Tail(bytes), done, Append(cur, Head(bytes)))

PushedLines == SplitAtLF(pushed, <<>>, <<>>)

RECURSIVE Flatten(_)
Flatten(seqs) == IF seqs = <<>> THEN <<>> ELSE Head(seqs) \o Flatten(Tail(seqs))

\* the stored history as a sequence of lines: each completed line with its
\* line feed, then the tail when it is not empty
HistoryEntries ==
    [i \in 1..Len(lines) |-> Append(lines[i], LF)]
    \o (IF current_line = <<>> THEN <<>> ELSE <<current_line>>)

\* the window sizes asked for: none, some, all and more than all
WindowSizes == 0..(MaxPushed + 2)

----------------------------------------------------------------------------
(* C11: the stored completed lines are the most recent min(max_lines,      *)
(* number of completed lines pushed) ones, in their order, so that after   *)
(* k > max_lines lines append_all produces exactly the last max_lines.     *)
EvictionKeepsNewest ==
    LET pl == PushedLines
        kept == Min(max_lines, Len(pl.completed))
    IN  /\ lines = LastK(pl.completed, kept)
        /\ current_line = pl.tail
        /\ append_all(Buf)
             = Flatten([i \in 1..kept |->
                          Append(LastK(pl.completed, kept)[i], LF)]) \o pl.tail

\* three lines pushed into a buffer of capacity two, the kept ones distinct
EvictionKeepsNewestWitness ==
    /\ max_lines = 2
    /\ Len(PushedLines.completed) = 3
    /\ current_line = <<>>
    /\ Len(lines) = 2 /\ lines[1] # lines[2]
    /\ lines = LastK(PushedLines.completed, 2)

----------------------------------------------------------------------------
(* C12: append_last_n_lines(n) appends the last min(n, line_count())       *)
(* lines of the history, a non-empty tail counting as the newest line;     *)
(* n = 0 appends nothing, n >= line_count() the same bytes as append_all.  *)
WindowedRead ==
    \A n \in WindowSizes :
        LET k == Min(n, line_count(Buf))
        IN  /\ Len(HistoryEntries) = line_count(Buf)
            /\ append_last_n_lines(Buf, n) = Flatten(LastK(HistoryEntries, k))
            /\ IsSuffix(append_last_n_lines(Buf, n), append_all(Buf))
            /\ n = 0 => append_last_n_lines(Buf, n) = <<>>
            /\ n >= line_count(Buf) => append_last_n_lines(Buf, n) = append_all(Buf)

\* two completed lines and a tail: a window of one is the tail, a window of
\* two is the last line and the tail, not the whole history
WindowedReadWitness ==
    /\ Len(lines) = 2 /\ current_line # <<>>
    /\ append_last_n_lines(Buf, 1) = current_line
    /\ append_last_n_lines(Buf, 2) = lines[2] \o <<LF>> \o current_line
    /\ append_last_n_lines(Buf, 2) # append_all(Buf)

----------------------------------------------------------------------------
(* C13: append_all is a suffix of the bytes pushed since new / clear, and  *)
(* is all of them while no more than max_lines line feeds were pushed;     *)
(* carriage returns are kept.                                              *)
HistoryVerbatim ==
    /\ IsSuffix(append_all(Buf), pushed)
    /\ NumLF(pushed) <= max_lines => append_all(Buf) = pushed

\* a CR LF line and a tail, nothing evicted
HistoryVerbatimWitness ==
    /\ pushed = <<97, CR, LF, 97>>
    /\ NumLF(pushed) <= max_lines
    /\ append_all(Buf) = pushed

----------------------------------------------------------------------------
(* The state machine of an EscapeParser fed byte by byte *)

MaxScanLen == 3
MaxParts == 2
MaxBody == 2

\* the decimal digits of n, as format!("{}", n) writes them
RECURSIVE Dec(_)
Dec(n) == IF n < 10 THEN <<DIGIT0 + n>> ELSE Dec(n \div 10) \o <<DIGIT0 + (n % 10)>>

\* the strings of at most n bytes of alpha
RECURSIVE BytesOver(_, _)
BytesOver(alpha, n) ==
    IF n = 0 THEN {<<>>}
    ELSE LET shorter == BytesOver(alpha, n - 1)
         IN  shorter \cup {bs \o <<x>> : bs \in shorter, x \in alpha}

\* at most n pieces in a row
RECURSIVE PiecesOver(_, _)
PiecesOver(pieces, n) ==
    IF n = 0 THEN {<<>>}
    ELSE LET shorter == PiecesOver(pieces, n - 1)
         IN  shorter \cup {bs \o x : bs \in shorter, x \in pieces}

\* ESC [ ] ? ; h BEL LF in any order
ScanAlphabet == {ESC, LBRACKET, RBRACKET, QUESTION, SEMICOLON, 104, BEL, LF}

FreeInputs == BytesOver(ScanAlphabet, MaxScanLen)

\* the parameter area of a CSI sequence: the sync parameter, a number
\* congruent to it modulo 2^16, digits that reach and pass 65535, a leading
\* zero, a separator and an intermediate byte ($)
CsiPieces ==
    {Dec(2026), Dec(67562), Dec(6553), <<53>>, <<54>>, <<DIGIT0>>,
     <<SEMICOLON>>, <<36>>}

\* CSI and private-mode CSI sequences ended by h or l
CsiInputs ==
    {<<ESC, LBRACKET>> \o q \o body \o <<final>> :
        q \in {<<>>, <<QUESTION>>},
        body \in PiecesOver(CsiPieces, MaxParts),
        final \in {104, 108}}

\* ESC [ p1 ; p2 ; ... m
RECURSIVE JoinParams(_)
JoinParams(ps) ==
    IF Len(ps) = 1 THEN Dec(ps[1])
    ELSE Dec(Head(ps)) \o <<SEMICOLON>> \o JoinParams(Tail(ps))

SgrSeq(ps) == <<ESC, LBRACKET>> \o JoinParams(ps) \o <<109>>

\* colour components: two that are also attribute codes (reset, bg
\* introducer), one in the middle and the largest
SgrSamples == {0, 48, 128, 255}

SgrInputs ==
    {SgrSeq(<<intro, 2, r, g, b>>) :
        intro \in {38, 48}, r \in SgrSamples, g \in SgrSamples, b \in SgrSamples}
    \cup {SgrSeq(<<intro, 5, n>>) : intro \in {38, 48}, n \in SgrSamples}

\* b']' (OSC), b'P' (DCS), b'^' (PM), b'_' (APC)
StringIntros == {RBRACKET, 80, 94, 95}

\* BEL, the 8-bit ST, ESC \ and an ESC that opens a CSI sequence
StringEnds == {<<BEL>>, <<ST8>>, <<ESC, 92>>, <<ESC, LBRACKET, 72>>}

StringInputs ==
    {<<ESC, intro>> \o body \o end :
        intro \in StringIntros,
        body \in BytesOver({97, BEL, ST8, LF}, MaxBody),
        end \in StringEnds}

ScanInputs == FreeInputs \cup CsiInputs \cup SgrInputs \cup StringInputs

\* parser.feed(byte) for the next byte of the input
ScanFeed ==
    /\ scRest # <<>>
    /\ LET byte == Head(scRest)
           r == feed(scanner, byte)
       IN  /\ scanner' = r.parser
           /\ scEvent' = r.event
           /\ scFed' = Append(scFed, byte)
           /\ scSeq' = IF scanner.state = "Ground" THEN <<byte>>
                       ELSE Append(scSeq, byte)
    /\ scRest' = Tail(scRest)
    /\ UNCHANGED <<opVars, lbVars, swVars, anVars, mnVars>>

InitScan ==
    /\ InitProc(<<>>) /\ InitBuf(0) /\ InitScript(<<>>, <<>>, <<>>) /\ Idle
    /\ \E in \in ScanInputs : InitScanner(in)

NextScan == ScanFeed

SpecScan == InitScan /\ [][NextScan]_vars

----------------------------------------------------------------------------
(* Vocabulary of the scanner properties *)

AllBytes == 0..255

ParserStates ==
    {"Ground", "Escape", "CsiEntry", "CsiParam", "CsiIntermediate",
     "OscString", "DcsString"}

EventKinds ==
    {"None", "Newline", "CarriageReturn", "Other", "CursorHome", "ClearScreen",
     "ClearScrollback", "CursorUp", "CursorCol", "ClearLine", "Sgr",
     "SyncStart", "SyncEnd"}

IsDigit(byte) == byte >= DIGIT0 /\ byte <= DIGIT9

\* the decimal value of a string of digits; values of a million and more
\* are all given as a million, which keeps the arithmetic in range and
\* every comparison with a 16-bit number true to the real value
RECURSIVE DecVal(_)
DecVal(digits) ==
    IF digits = <<>> THEN 0
    ELSE Min(10 * DecVal(SubSeq(digits, 1, Len(digits) - 1))
             + (digits[Len(digits)] - DIGIT0), 1000000)

----------------------------------------------------------------------------
(* C14: whenever feed returns an event the parser is in Ground afterwards: *)
(* so it was for the byte just fed, and so it is for every byte that could *)
(* be fed next.                                                            *)
EventMeansGround ==
    /\ scEvent # NoEvent => ~in_escape_sequence(scanner)
    /\ \A byte \in AllBytes :
          LET r == feed(scanner, byte)
          IN  r.event # NoEvent => ~in_escape_sequence(r.parser)

\* a BEL has ended an OSC string: an event, and the parser in Ground
EventMeansGroundWitness ==
    /\ Len(scSeq) >= 3 /\ scSeq[1] = ESC /\ scSeq[2] = RBRACKET
    /\ scSeq[Len(scSeq)] = BEL
    /\ scEvent = Event("Other")
    /\ scanner.state = "Ground"

----------------------------------------------------------------------------
(* C17: feed accepts every byte value in every state the parser reaches    *)
(* (it yields a parser state and None or an event), and from every such    *)
(* state some byte leads to Ground.                                        *)
ScannerNeverBlocks ==
    /\ \A byte \in AllBytes :
          LET r == feed(scanner, byte)
          IN  r.parser.state \in ParserStates /\ r.event.kind \in EventKinds
    /\ \E byte \in AllBytes : feed(scanner, byte).parser.state = "Ground"

\* the parser inside a private-mode sequence with intermediate bytes
ScannerNeverBlocksWitness ==
    /\ scanner.state = "CsiIntermediate"
    /\ Len(scanner.intermediate) >= 2
    /\ feed(scanner, 104).parser.state = "Ground"

----------------------------------------------------------------------------
(* More vocabulary: the sequence the parser is in *)

\* the last index of seq holding byte x, 0 when there is none
LastIndexOf(seq, x) ==
    LET at == {i \in DOMAIN seq : seq[i] = x}
    IN  IF at = {} THEN 0 ELSE CHOOSE i \in at : \A j \in at : j <= i

\* the bytes of seq after the last ESC: of a CSI sequence, what follows ESC
CsiPart(seq) == SubSeq(seq, LastIndexOf(seq, ESC) + 1, Len(seq))

\* the digits of the parameter being accumulated: those after the last ';'
CurDigits(seq) ==
    LET part == CsiPart(seq)
    IN  SelectSeq(SubSeq(part, LastIndexOf(part, SEMICOLON) + 1, Len(part)), IsDigit)

\* seq is ESC [ ? <digits>, nothing else
IsPrivateDigits(seq) ==
    /\ Len(seq) >= 3
    /\ SubSeq(seq, 1, 3) = <<ESC, LBRACKET, QUESTION>>
    /\ \A i \in 4..Len(seq) : IsDigit(seq[i])

StringStates == {"OscString", "DcsString"}

\* seq is ESC <string introducer> <body without ESC>
IsStringBody(seq) ==
    /\ Len(seq) >= 2
    /\ seq[1] = ESC /\ seq[2] \in StringIntros
    /\ \A i \in 3..Len(seq) : seq[i] # ESC

----------------------------------------------------------------------------
(* C15: from Ground, SyncStart is reported only for the bytes              *)
(* ESC [ ? 2 0 2 6 h and SyncEnd only for ESC [ ? 2 0 2 6 l.               *)
SyncMarkersExact ==
    /\ scEvent.kind = "SyncStart" => scSeq = SYNC_START
    /\ scEvent.kind = "SyncEnd" => scSeq = SYNC_END

----------------------------------------------------------------------------
----------------------------------------------------------------------------
(* C18: the parameter being accumulated is min(decimal value of its        *)
(* digits, 65535); a private-mode sequence ESC [ ? <digits> h / l is a     *)
(* sync marker exactly when the decimal value of the digits is 2026, so    *)
(* never when it is above 65535.                                           *)
ParamsSaturate ==
    /\ (scanner.state \in {"CsiParam", "CsiIntermediate"} /\ scanner.params # <<>>)
          => scanner.params[Len(scanner.params)]
               = Min(DecVal(CurDigits(scSeq)), U16_MAX)
    /\ (/\ scanner.state = "Ground"
        /\ Len(scSeq) >= 4
        /\ IsPrivateDigits(SubSeq(scSeq, 1, Len(scSeq) - 1))
        /\ scSeq[Len(scSeq)] \in {104, 108})
          => (scEvent.kind \in {"SyncStart", "SyncEnd"}
                <=> DecVal(SubSeq(scSeq, 4, Len(scSeq) - 1)) = 2026)

\* 67562 = 2026 + 65536 was folded to 65535 and reported as Other
ParamsSaturateWitness ==
    /\ scSeq = <<ESC, LBRACKET, QUESTION>> \o Dec(67562) \o <<104>>
    /\ scanner.params = <<U16_MAX>>
    /\ scEvent = Event("Other")

----------------------------------------------------------------------------
(* C19: ESC [ 38 ; 2 ; r ; g ; b m sets only fg, to Rgb(r, g, b);          *)
(* ESC [ 48 ; 2 ; r ; g ; b m only bg; ESC [ 38 ; 5 ; n m and              *)
(* ESC [ 48 ; 5 ; n m set fg, bg to Indexed(n); r, g, b, n are not read    *)
(* again as attribute codes.                                               *)
SgrColourDecoding ==
    (scanner.state = "Ground" /\ Len(scSeq) > 1) =>
        /\ \A r \in SgrSamples, g \in SgrSamples, b \in SgrSamples :
              LET rgb == [kind |-> "Rgb", r |-> r, g |-> g, b |-> b]
              IN  /\ scSeq = SgrSeq(<<38, 2, r, g, b>>) =>
                        scEvent = [kind |-> "Sgr",
                                   sgr |-> [reset |-> FALSE, fg |-> rgb,
                                            bg |-> [kind |-> "None"]]]
                  /\ scSeq = SgrSeq(<<48, 2, r, g, b>>) =>
                        scEvent = [kind |-> "Sgr",
                                   sgr |-> [reset |-> FALSE, bg |-> rgb,
                                            fg |-> [kind |-> "None"]]]
        /\ \A n \in SgrSamples :
              LET idx == [kind |-> "Indexed", n |-> n]
              IN  /\ scSeq = SgrSeq(<<38, 5, n>>) =>
                        scEvent = [kind |-> "Sgr",
                                   sgr |-> [reset |-> FALSE, fg |-> idx,
                                            bg |-> [kind |-> "None"]]]
                  /\ scSeq = SgrSeq(<<48, 5, n>>) =>
                        scEvent = [kind |-> "Sgr",
                                   sgr |-> [reset |-> FALSE, bg |-> idx,
                                            fg |-> [kind |-> "None"]]]

\* an RGB foreground whose last component is also the reset code
SgrColourDecodingWitness ==
    /\ scSeq = SgrSeq(<<38, 2, 255, 128, 0>>)
    /\ scEvent.kind = "Sgr"
    /\ scEvent.sgr.fg = [kind |-> "Rgb", r |-> 255, g |-> 128, b |-> 0]
    /\ scEvent.sgr.bg = [kind |-> "None"]
    /\ ~scEvent.sgr.reset

----------------------------------------------------------------------------
(* script_parser.rs *)

\* b"Script started on"
SCRIPT_HEADER ==
    <<83, 99, 114, 105, 112, 116, 32, 115, 116, 97, 114, 116, 101, 100, 32, 111, 110>>

\* b"\nScript done on"
footer_marker ==
    <<10, 83, 99, 114, 105, 112, 116, 32, 100, 111, 110, 101, 32, 111, 110>>

\* the index after the first newline of a data that starts with the header
\* marker, 0 when there is no such line
find_script_header_end(bytes) ==
    IF ~StartsWith(bytes, SCRIPT_HEADER) THEN 0
    ELSE LET nl == {i \in 0..(Len(bytes) - 1) : bytes[i + 1] = LF}
         IN  IF nl = {} THEN 0
             ELSE (CHOOSE i \in nl : \A j \in nl : i <= j) + 1

\* the largest i of 0..len-|marker| (its end excluded) where the marker
\* lies, data.len() when there is none
find_script_footer_start(bytes) ==
    LET upper == Max(Len(bytes) - Len(footer_marker), 0)
        found == {i \in 0..(upper - 1) :
                     SubSeq(bytes, i + 1, i + Len(footer_marker)) = footer_marker}
    IN  IF found = {} THEN Len(bytes)
        ELSE CHOOSE i \in found : \A j \in found : j <= i

RECURSIVE StripHeaders(_)
StripHeaders(result) ==
    LET header_end == find_script_header_end(result)
    IN  IF header_end = 0 THEN result
        ELSE StripHeaders(Drop(result, header_end))

\* the second loop as a single `if`: one footer stripped at most
StripFooters_Once(result) ==
    LET footer_start == find_script_footer_start(result)
    IN  IF footer_start >= Len(result) THEN result
        ELSE SubSeq(result, 1, footer_start)

RECURSIVE StripFooters(_)
StripFooters(result) ==
    LET footer_start == find_script_footer_start(result)
    IN  IF footer_start >= Len(result) THEN result
        ELSE StripFooters(SubSeq(result, 1, footer_start))

strip_script_wrapper(bytes) == StripFooters(StripHeaders(bytes))

----------------------------------------------------------------------------
(* The state machine of strip_script_wrapper *)

MaxContent == 3
MaxScriptPieces == 4

\* no header, "Script started on\n", "Script started on x\n"
ScriptHeaders ==
    {<<>>, SCRIPT_HEADER \o <<LF>>, SCRIPT_HEADER \o <<32, 120, LF>>}

\* no footer, "\nScript done on", "\nScript done on x"
ScriptFooters == {<<>>, footer_marker, footer_marker \o <<32, 120>>}

\* content: text and newlines, too short to hold a marker
ScriptContents == BytesOver({97, LF}, MaxContent)

\* any data: the two markers, newlines and text in any order
ScriptPieces == {SCRIPT_HEADER, footer_marker, <<LF>>, <<97>>}

ScriptData == PiecesOver(ScriptPieces, MaxScriptPieces)

\* one iteration of the first loop (lines 26-32)
StripHeaderStep ==
    /\ swPc = "header"
    /\ LET header_end == find_script_header_end(swResult)
       IN  IF header_end = 0
           THEN swPc' = "footer" /\ UNCHANGED swResult
           ELSE swResult' = Drop(swResult, header_end) /\ UNCHANGED swPc
    /\ UNCHANGED <<swData, swContent, opVars, lbVars, scVars, anVars, mnVars>>

\* one iteration of the second loop (lines 34-40); the function returns
\* result when the loop breaks
StripFooterStep ==
    /\ swPc = "footer"
    /\ LET footer_start == find_script_footer_start(swResult)
       IN  IF footer_start >= Len(swResult)
           THEN swPc' = "done" /\ UNCHANGED swResult
           ELSE swResult' = SubSeq(swResult, 1, footer_start) /\ UNCHANGED swPc
    /\ UNCHANGED <<swData, swContent, opVars, lbVars, scVars, anVars, mnVars>>

InitScriptWrapper ==
    /\ InitProc(<<>>) /\ InitBuf(0) /\ InitScanner(<<>>) /\ Idle
    /\ \/ \E head \in ScriptHeaders, content \in ScriptContents, foot \in ScriptFooters :
             InitScript(head, content, foot)
       \/ \E d \in ScriptData : InitScript(<<>>, d, <<>>)

NextScriptWrapper == StripHeaderStep \/ StripFooterStep

SpecScriptWrapper == InitScriptWrapper /\ [][NextScriptWrapper]_vars

\* the function runs on: a loop iteration that can be taken is taken
SpecScriptWrapperFair == SpecScriptWrapper /\ WF_vars(NextScriptWrapper)

\* the indices at which marker m lies in bytes (0-based)
Occurrences(bytes, m) ==
    {i \in 0..(Len(bytes) - Len(m)) : SubSeq(bytes, i + 1, i + Len(m)) = m}

ContainsNeitherMarker(bytes) ==
    Occurrences(bytes, SCRIPT_HEADER) = {} /\ Occurrences(bytes, footer_marker) = {}

----------------------------------------------------------------------------
(* C20: strip_script_wrapper(header + C + footer) returns exactly C, for   *)
(* a header line "Script started on <text>\n" or none, a footer            *)
(* "\nScript done on <text>" (<text> possibly empty) or none, and content  *)
(* C that holds neither marker.                                            *)
StripWrapperExact ==
    (swPc = "done" /\ ContainsNeitherMarker(swContent))
        => swResult = swContent /\ strip_script_wrapper(swData) = swContent

----------------------------------------------------------------------------
(* C27: after clear() the history is empty (no line, no byte, nothing      *)
(* appended by append_all), max_lines never changes, and the buffer after  *)
(* the pushes that follow a clear is the buffer these pushes give on a new *)
(* buffer of that capacity.                                                *)
ClearResets ==
    /\ [](/\ (cleared /\ pushed = <<>>) =>
                /\ line_count(Buf) = 0
                /\ total_bytes(Buf) = 0
                /\ append_all(Buf) = <<>>
          /\ Buf = push_bytes(LineBuffer_new(max_lines), pushed))
    /\ [][max_lines' = max_lines]_vars

\* a clear, then pushes that complete a line and leave a tail
ClearResetsWitness ==
    /\ cleared
    /\ max_lines >= 1
    /\ Len(lines) = 1 /\ current_line # <<>>
    /\ total_bytes(Buf) = Len(pushed)

----------------------------------------------------------------------------
(* C28: at most max_lines completed lines are stored and line_count() is   *)
(* at most max_lines + 1, the one more being the non-empty tail, which is  *)
(* all bytes pushed after the last newline; with max_lines = 0 no          *)
(* completed line is kept and total_bytes() is the length of the tail.     *)
HistorySizeBound ==
    /\ Len(lines) <= max_lines
    /\ line_count(Buf) <= max_lines + 1
    /\ line_count(Buf) = max_lines + 1 => current_line # <<>>
    /\ current_line = PushedLines.tail
    /\ max_lines = 0 => lines = <<>> /\ total_bytes(Buf) = Len(current_line)

\* capacity 1, two lines pushed and a tail: one line and the tail are kept
HistorySizeBoundWitness ==
    /\ max_lines = 1
    /\ NumLF(pushed) = 2
    /\ Len(lines) = 1
    /\ line_count(Buf) = 2

----------------------------------------------------------------------------
(* C25: find_script_footer_start(data) is the start of the last            *)
(* occurrence of "\nScript done on" in data when there is one, also one    *)
(* that ends the data, and data.len() only when there is none.             *)
FooterStartIsLastOccurrence ==
    LET occ == Occurrences(swResult, footer_marker)
    IN  /\ swPc \in {"footer", "done"} =>
              find_script_footer_start(swResult)
                = IF occ = {} THEN Len(swResult)
                  ELSE CHOOSE i \in occ : \A j \in occ : j <= i
        /\ swPc = "done" => occ = {}

----------------------------------------------------------------------------
(* C29: strip_script_wrapper ends: every loop iteration that goes on       *)
(* shortens the slice, and the function returns; what it returns is a      *)
(* contiguous part of its argument, and stripping it again changes         *)
(* nothing.                                                                *)
StripTerminatesIdempotent ==
    /\ [][swResult' # swResult \/ swPc' # swPc]_vars
    /\ [][swPc' = swPc => Len(swResult') < Len(swResult)]_vars
    /\ <>(swPc = "done")
    /\ [](\E i \in 0..Len(swData), j \in 0..Len(swData) :
             swResult = SubSeq(swData, i + 1, j))
    /\ [](swPc = "done" =>
             /\ swResult = strip_script_wrapper(swData)
             /\ strip_script_wrapper(swResult) = swResult)

\* two header lines were stripped, one in each iteration of the first loop
StripTerminatesIdempotentWitness ==
    /\ swPc = "done"
    /\ swData = SCRIPT_HEADER \o <<LF>> \o SCRIPT_HEADER \o <<LF>>
    /\ swResult = <<>>

----------------------------------------------------------------------------
(* The state machine of count_sync_markers (analyzer.rs:154-168) *)

MaxMarkers == 3

\* recorded data: the two markers, text and a lone ESC in any order
AnalyzerPieces == {SYNC_START, SYNC_END, <<72>>, <<ESC>>}

AnalyzerData == PiecesOver(AnalyzerPieces, MaxMarkers)

\* data.len().saturating_sub(SYNC_START.len()), the end of the range of i
CountRangeEnd == Max(Len(anData) - Len(SYNC_START), 0)

\* one iteration of the loop over i (lines 158-165)
CountStep ==
    /\ anPc = "loop"
    /\ anI < CountRangeEnd
    /\ starts' = starts
                 + (IF SubSeq(anData, anI + 1, anI + Len(SYNC_START)) = SYNC_START
                    THEN 1 ELSE 0)
    /\ ends' = ends
               + (IF SubSeq(anData, anI + 1, anI + Len(SYNC_END)) = SYNC_END
                  THEN 1 ELSE 0)
    /\ anI' = anI + 1
    /\ UNCHANGED <<anData, anPc, opVars, lbVars, scVars, swVars, mnVars>>

\* the range is exhausted: (starts, ends) is returned
CountReturn ==
    /\ anPc = "loop"
    /\ anI >= CountRangeEnd
    /\ anPc' = "done"
    /\ UNCHANGED <<anData, anI, starts, ends, opVars, lbVars, scVars, swVars, mnVars>>

InitCount ==
    /\ InitProc(<<>>) /\ InitBuf(0) /\ InitScanner(<<>>)
    /\ InitScript(<<>>, <<>>, <<>>) /\ InitMain(1)
    /\ \E d \in AnalyzerData : InitAnalyzer(d)

NextCount == CountStep \/ CountReturn

SpecCount == InitCount /\ [][NextCount]_vars

----------------------------------------------------------------------------
(* C26: count_sync_markers(data) returns the number of occurrences of the  *)
(* sync-start marker and of the sync-end marker in data, also for a marker *)
(* that ends the data and for data shorter than a marker.                  *)
SyncMarkerCounts ==
    anPc = "done" =>
        /\ starts = Cardinality(Occurrences(anData, SYNC_START))
        /\ ends = Cardinality(Occurrences(anData, SYNC_END))

----------------------------------------------------------------------------
(* Vocabulary of the emission properties *)

\* all bytes returned so far together with those the call in progress
\* returns if it receives nothing more
ToReturn ==
    IF pc = "loop" THEN emitted \o output \o passthrough_buffer ELSE emitted

\* the literal sync markers in bytes alternate, a sync-start first and a
\* sync-end last (open: the last marker seen was a sync-start)
RECURSIVE MarkersBalanced(_, _)
MarkersBalanced(bytes, open) ==
    IF bytes = <<>> THEN ~open
    ELSE IF StartsWith(bytes, SYNC_START)
    THEN ~open /\ MarkersBalanced(Drop(bytes, Len(SYNC_START)), TRUE)
    ELSE IF StartsWith(bytes, SYNC_END)
    THEN open /\ MarkersBalanced(Drop(bytes, Len(SYNC_END)), FALSE)
    ELSE MarkersBalanced(Tail(bytes), open)

----------------------------------------------------------------------------
(* C22: while a block is open nothing is added to what the calls return,   *)
(* whatever the number of calls; the step that handles the sync-end        *)
(* appends the block (start marker, accumulated content, end marker) to    *)
(* the call's output in one piece; what is returned only ever grows at its *)
(* end, and no earlier byte still waits to be returned when the block is   *)
(* appended.                                                               *)
BlocksEmittedAtomically ==
    /\ [](in_sync_block => passthrough_buffer = <<>>)
    /\ [][(in_sync_block /\ in_sync_block') => ToReturn' = ToReturn]_vars
    /\ [][(in_sync_block /\ ~in_sync_block') =>
             /\ lastEvent' = "SyncEnd"
             /\ StartsWith(sync_buffer, SYNC_START)
             /\ output' = output \o sync_buffer \o SYNC_END
             /\ passthrough_buffer' = <<>>]_vars
    /\ [][StartsWith(ToReturn', ToReturn)]_vars

\* a block received in two calls: the first returned nothing, the second
\* has the whole block in its output
BlocksEmittedAtomicallyWitness ==
    /\ calls = 2
    /\ pc = "loop"
    /\ lastEvent = "SyncEnd"
    /\ emitted = <<>>
    /\ output = Block

----------------------------------------------------------------------------
(* C23: on a sync event the bytes taken out of the stream are exactly the  *)
(* bytes of the marker: what is staged and dropped at that step, with the  *)
(* byte that completes the marker, is the marker and nothing more.  Stated *)
(* for a stream received in one call.                                      *)
OnlyMarkerDiscarded ==
    [][(LoopStep /\ calls = 1 /\ lastEvent' \in {"SyncStart", "SyncEnd"}) =>
          SeedPending(Proc).pending_escape \o <<Head(data)>>
            = (IF lastEvent' = "SyncStart" THEN SYNC_START ELSE SYNC_END)]_vars

----------------------------------------------------------------------------
(* C24: in what each call returns, and in all that the calls have          *)
(* returned, the literal sync markers alternate, a sync-start first, and   *)
(* every sync-start has its sync-end in the same returned value.           *)
EmittedMarkersBalanced ==
    (pc = "idle" /\ calls >= 1) =>
        /\ MarkersBalanced(output, FALSE)
        /\ MarkersBalanced(emitted, FALSE)

----------------------------------------------------------------------------
(* The state machine of main (bin.rs:13-51) *)

MaxArgc == 3
U8_MAX == 255

\* Proxy::spawn(command, args, config): a session, or an error (the
\* pseudo-terminal could not be allocated, the command not started)
Proxy_spawn == {"Ok", "Err"}

\* proxy.run(): the exit code of the child, or an error of the session
Proxy_run ==
    {[ok |-> TRUE, exit_code |-> c] : c \in 0..U8_MAX}
    \cup {[ok |-> FALSE, exit_code |-> 0]}

\* the arms of match proxy.run() with success for every exit code
ExitStatusOf_Success(result) == IF result.ok THEN 0 ELSE 1

\* the arms of match proxy.run() (lines 39-45): ExitCode::from(exit_code
\* as u8), or 1 on an error
ExitStatusOf(result) ==
    IF result.ok THEN result.exit_code % (U8_MAX + 1) ELSE 1

\* too few arguments: usage, exit status 1 (lines 16-27)
MainUsage ==
    /\ mainPc = "args"
    /\ argc < 2
    /\ exitStatus' = 1
    /\ mainPc' = "exit"
    /\ UNCHANGED <<argc, session, runResult, opVars, lbVars, scVars, swVars, anVars>>

\* Proxy::spawn (line 38) and its Err arm (lines 46-49)
MainSpawn ==
    /\ mainPc = "args"
    /\ argc >= 2
    /\ \E outcome \in Proxy_spawn :
          IF outcome = "Ok"
          THEN /\ session' = "running"
               /\ mainPc' = "run"
               /\ UNCHANGED exitStatus
          ELSE /\ session' = "none"
               /\ mainPc' = "exit"
               /\ exitStatus' = 1
    /\ UNCHANGED <<argc, runResult, opVars, lbVars, scVars, swVars, anVars>>

\* proxy.run() returns, its result becomes the exit status, and the proxy
\* goes out of scope (lines 39-45)
MainRun ==
    /\ mainPc = "run"
    /\ \E result \in Proxy_run :
          /\ runResult' = result
          /\ exitStatus' = ExitStatusOf(result)
    /\ session' = "closed"
    /\ mainPc' = "exit"
    /\ UNCHANGED <<argc, opVars, lbVars, scVars, swVars, anVars>>

InitMainSpec ==
    /\ InitProc(<<>>) /\ InitBuf(0) /\ InitScanner(<<>>)
    /\ InitScript(<<>>, <<>>, <<>>) /\ InitAnalyzer(<<>>)
    /\ \E n \in 1..MaxArgc : InitMain(n)

NextMain == MainUsage \/ MainSpawn \/ MainRun

SpecMain == InitMainSpec /\ [][NextMain]_vars

----------------------------------------------------------------------------
(* C21: when the session was spawned and run() returned the child's exit   *)
(* code c, the exit status is c; after a spawn failure or a run error the  *)
(* exit status is not 0; no session is running when the process exits.     *)
ExitStatusMirrorsChild ==
    mainPc = "exit" =>
        /\ (session = "closed" /\ runResult.ok) => exitStatus = runResult.exit_code
        /\ (session = "closed" /\ ~runResult.ok) => exitStatus # 0
        /\ session = "none" => exitStatus # 0
        /\ session # "running"

\* the child exited with a non-zero code and main exits with it
ExitStatusMirrorsChildWitness ==
    /\ mainPc = "exit"
    /\ session = "closed"
    /\ runResult = [ok |-> TRUE, exit_code |-> 3]
    /\ exitStatus = 3

====
